---- MODULE Spec2Model ----
(***************************************************************************)
(* A model of the Gmail automation controller (src/app.py, class           *)
(* GmailAutomation) and of the Streamlit shell that drives it (src/ui.py). *)
(*                                                                         *)
(* The browser driver is an external collaborator: every driver operation  *)
(* (navigation, element wait, click, key-send, read-back, cookie deletion, *)
(* screenshot, quit) either succeeds or raises, chosen nondeterministically*)
(* while the session is live, and always raises once the session is gone.  *)
(* The controller's methods are translated statement by statement; the     *)
(* program counter (step, pc, cand, attempt) names the statement the       *)
(* single thread of control is about to execute.                           *)
(***************************************************************************)
EXTENDS Integers, Sequences, FiniteSets, TLC

(***************************************************************************)
(* Bounds of the model (not program constants).                            *)
(***************************************************************************)
\* Largest max_attempts argument a free caller passes (0 is passed too).
MaxAttemptsArg == 3
\* Number of method calls a free caller makes on one controller.
MaxCalls == 3
\* Number of browser sessions the driver manager can start.
MaxSessions == 2
\* Longest text a free caller hands to human_type.
MaxLen == 2

(***************************************************************************)
(* Program constants.                                                      *)
(***************************************************************************)
\* max_attempts=3, the default of login_to_gmail and compose_and_send_email.
DefaultMaxAttempts == 3

urls ==
    << "https://mail.google.com",
       "https://accounts.google.com/ServiceLogin?service=mail",
       "https://accounts.google.com/v3/signin/identifier?service=mail" >>

email_selectors ==
    << "input[type=\"email\"]", "input[identifier=\"Email\"]",
       "#identifierId", "input[name=\"identifier\"]" >>

next_buttons ==
    << "identifierNext", "button[data-primary-action=\"true\"]",
       "//span[text()=\"Next\"]" >>

password_selectors ==
    << "input[type=\"password\"]", "input[name=\"Passwd\"]", "#password input" >>

submit_buttons ==
    << "passwordNext", "button[data-primary-action=\"true\"]",
       "//span[text()=\"Next\"]" >>

recipient_selectors ==
    << "input[aria-label=\"To\"]", "input[peoplekit-id=\"BbVjBd\"]",
       "textarea[name=\"to\"]", "input[type=\"text\"][aria-label=\"To\"]" >>

subject_selectors ==
    << "input[name=\"subjectbox\"]", "input[aria-label=\"Subject\"]",
       "input[placeholder=\"Subject\"]", "input[name=\"subject\"]" >>

body_selectors ==
    << "div[aria-label=\"Message Body\"]", "div[role=\"textbox\"]",
       "div[g_editable=\"true\"]", "div[aria-label=\"Message Body\"] > div" >>

send_selectors ==
    << "div[aria-label*=\"Send\"]", "div[role=\"button\"][aria-label*=\"Send\"]",
       "//div[text()=\"Send\"]", "div[guidedhelpid=\"send_button\"]" >>

\* The selector cascades of login_to_gmail and of compose_and_send_email.
LoginCascades == {"email", "next", "password", "submit"}
SendCascades == {"recipient", "subject", "body", "send"}
Cascades == LoginCascades \cup SendCascades

\* The ordered candidate list of a cascade.
Candidates(s) ==
    CASE s = "email" -> email_selectors
      [] s = "next" -> next_buttons
      [] s = "password" -> password_selectors
      [] s = "submit" -> submit_buttons
      [] s = "recipient" -> recipient_selectors
      [] s = "subject" -> subject_selectors
      [] s = "body" -> body_selectors
      [] s = "send" -> send_selectors

\* What the code does with the element a candidate resolved to: human_type,
\* click, or (body) click followed by one send_keys of the whole text.
Kind(s) ==
    CASE s \in {"email", "password", "recipient", "subject"} -> "type"
      [] s \in {"next", "submit", "send"} -> "click"
      [] s = "body" -> "body"

\* The blocks in another order: the password block moved before the next button.
StepAfterPasswordFirst(s) ==
    CASE s = "email" -> "password"
      [] s = "password" -> "next"
      [] s = "next" -> "submit"
      [] s = "submit" -> "landmark"
      [] s = "recipient" -> "subject"
      [] s = "subject" -> "body"
      [] s = "body" -> "send"
      [] s = "send" -> "confirm"

\* The blocks in another order: the send button moved before the body.
StepAfterSendFirst(s) ==
    CASE s = "email" -> "next"
      [] s = "next" -> "password"
      [] s = "password" -> "submit"
      [] s = "submit" -> "landmark"
      [] s = "recipient" -> "subject"
      [] s = "subject" -> "send"
      [] s = "send" -> "body"
      [] s = "body" -> "confirm"

\* The block that follows a cascade once one of its candidates has succeeded.
StepAfter(s) ==
    CASE s = "email" -> "next"
      [] s = "next" -> "password"
      [] s = "password" -> "submit"
      [] s = "submit" -> "landmark"
      [] s = "recipient" -> "subject"
      [] s = "subject" -> "body"
      [] s = "body" -> "send"
      [] s = "send" -> "confirm"

\* The message of the RuntimeError a block raises when it is exhausted, as the
\* sequence of the parts it is formatted from (each a literal of the source).
FailMessage(s) ==
    CASE s = "nav" -> << "Could not load Gmail login page" >>
      [] s = "email" -> << "Could not enter email address" >>
      [] s = "next" -> << "Could not click next button" >>
      [] s = "password" -> << "Could not enter password" >>
      [] s = "submit" -> << "Could not submit login" >>
      [] s = "recipient" -> << "Could not fill recipient field" >>
      [] s = "subject" -> << "Could not fill subject field" >>
      [] s = "body" -> << "Could not fill body field" >>
      [] s = "send" -> << "Could not click send button" >>

\* The name under which an observer records a completed operation.
OpName(s) ==
    CASE s = "nav" -> "navigate"
      [] s = "email" -> "fill-email"
      [] s = "next" -> "click-next"
      [] s = "password" -> "fill-password"
      [] s = "submit" -> "click-submit"
      [] s = "landmark" -> "detect-landmark"
      [] s = "dialog" -> "open-compose"
      [] s = "recipient" -> "fill-recipient"
      [] s = "subject" -> "fill-subject"
      [] s = "body" -> "fill-body"
      [] s = "send" -> "click-send"
      [] s = "confirm" -> "detect-dialog-closed"

\* The text each typing cascade hands to human_type (the shell's form fields).
InputText(s) ==
    CASE s = "email" -> << "u", "x" >>
      [] s = "password" -> << "p", "w" >>
      [] s = "recipient" -> << "r", "y" >>
      [] s = "subject" -> << "H", "i" >>
      [] s = "body" -> << "H", "o" >>

(***************************************************************************)
(* Text helpers.                                                           *)
(***************************************************************************)
\* Characters a free caller's text is made of; " " is whitespace.
Alphabet == {"a", " "}

RECURSIVE SeqsUpTo(_)
SeqsUpTo(n) ==
    IF n = 0 THEN {<< >>}
    ELSE LET shorter == SeqsUpTo(n - 1)
         IN shorter \cup {Append(s, c) : s \in {t \in shorter : Len(t) = n - 1},
                                        c \in Alphabet}

Texts == SeqsUpTo(MaxLen)

\* What a resolved field may already hold before the code touches it.
InitialContents == {<< >>, << "z" >>}

RECURSIVE LStrip(_)
LStrip(s) == IF s # << >> /\ Head(s) = " " THEN LStrip(Tail(s)) ELSE s

RECURSIVE RStrip(_)
RStrip(s) ==
    IF s # << >> /\ s[Len(s)] = " " THEN RStrip(SubSeq(s, 1, Len(s) - 1)) ELSE s

\* str.strip(): leading and trailing whitespace removed.
Strip(s) == RStrip(LStrip(s))

\* What a field may receive of the keystrokes s: all of them in order, or the
\* same with some keystrokes lost by the page.
RECURSIVE Deliveries(_)
Deliveries(s) ==
    IF s = << >> THEN {<< >>}
    ELSE LET rest == Deliveries(Tail(s))
         IN rest \cup {<< Head(s) >> \o r : r \in rest}

(***************************************************************************)
(* State.                                                                  *)
(***************************************************************************)
VARIABLES
    client,   \* who drives the controller: the "shell" (ui.py) or a "free" caller
    shell,    \* the shell's position in its Send Email action
    status,   \* what the shell's status area shows
    obj,      \* the GmailAutomation instance: "none", "ok", "broken" (__init__ raised)
    driver,   \* self.driver: 0 for None, else the id of the session it refers to
    live,     \* ids of the browser sessions that are running
    created,  \* number of browser sessions started so far
    calls,    \* number of method calls made so far
    op,       \* the method in progress, or the last one completed when pc = "idle"
    ret,      \* how the last completed call ended: "True", "False", "None", "raised"
    maxAtt,   \* the max_attempts argument of the call in progress
    attempt,  \* the loop variable of the attempt loop
    step,     \* the block of the method about to execute
    cand,     \* index of the url or selector candidate about to be tried
    pc,       \* position inside the block
    exc,      \* the exception the except clause has caught
    text,     \* human_type's text argument
    field,    \* content of the element the code is working on
    ti,       \* human_type's position in text
    typ,      \* what human_type has done in the current call
    obs,      \* what an observer has seen of the call in progress
    cas,      \* what an observer has seen of the current url loop or cascade
    clean,    \* no driver operation has failed since the controller was created
    oplog     \* the operations completed so far, kept while clean

ctlVars == << obj, driver, live, created >>
callVars == << op, ret, maxAtt, attempt, step, cand, pc, exc >>
typeVars == << text, field, ti, typ >>
shellVars == << shell, status >>
vars ==
    << client, shellVars, ctlVars, calls, callVars, typeVars, obs, cas, clean, oplog >>

NoExc == [type |-> "none", msg |-> << >>]

\* The observer's record at the start of a call.
NoObs ==
    [attempts |-> 0, shots |-> 0, shotAt |-> {}, cookieClears |-> 0,
     backoffs |-> 0, closeTries |-> 0, sendClicks |-> 0, submitClicks |-> 0,
     pwdResolved |-> FALSE, anyResolved |-> FALSE, confirmed |-> FALSE,
     steps |-> << >>]

\* The observer's record of a url loop or cascade: its block, the candidates
\* tried, those that resolved to an element (a url: landed on an expected
\* host), those whose element then failed the typing or the click, and the
\* candidate whose element completed the step (0: none yet).
NoCas == [name |-> "none", tried |-> {}, resolved |-> {}, rejected |-> {}, used |-> 0]

\* The observer's record of a human_type call: the field's content when it was
\* called, the clear_field calls, the send_keys arguments in order, the
\* read-backs with the value the last one read, the corrective retypes with
\* what the field received of the last one, whether a driver operation raised,
\* and the value it returns ("none" until it returns).
NoTyp == [field0 |-> << >>, clears |-> 0, keys |-> << >>, reads |-> 0,
          seen |-> << >>, retypes |-> 0, got |-> << >>, raised |-> FALSE,
          result |-> "none"]

\* The session self.driver refers to is running.
Alive == driver \in live

\* The outcomes of one driver operation: TRUE it succeeds, FALSE it raises
\* (a timeout included). Nothing succeeds on a session that is gone.
DriverOutcomes == IF Alive THEN BOOLEAN ELSE {FALSE}

Init ==
    /\ client \in {"shell", "free"}
    /\ shell = IF client = "shell" THEN "start" ELSE "off"
    /\ status = "none"
    /\ obj = "none"
    /\ driver = 0
    /\ live = {}
    /\ created = 0
    /\ calls = 0
    /\ op = "none"
    /\ ret = "none"
    /\ maxAtt = 0
    /\ attempt = 0
    /\ step = "none"
    /\ cand = 0
    /\ pc = "idle"
    /\ exc = NoExc
    /\ text = << >>
    /\ field = << >>
    /\ ti = 0
    /\ typ = NoTyp
    /\ obs = NoObs
    /\ cas = NoCas
    /\ clean = TRUE
    /\ oplog = << >>

\* An observer's log after operation o completes, resp. after a failure.
Logged(o) == IF clean THEN Append(oplog, o) ELSE oplog

\* A call of a method without an attempt loop begins: the observer's records of
\* the previous call are dropped.
NewCall == maxAtt' = 0 /\ obs' = NoObs /\ cas' = NoCas

(***************************************************************************)
(* Session lifecycle: __init__, setup_driver, _init_chrome, close.         *)
(***************************************************************************)
\* _init_chrome: "ok" returns a driver; "no_browser" is webdriver.Chrome (or
\* the driver manager) raising; "script_failed" is execute_script raising
\* after the browser has started.
InitChromeOutcomes == {"ok", "no_browser", "script_failed"}

\* setup_driver with _init_chrome ending as o: the new values of self.driver,
\* the running sessions, and how setup_driver ends.
SetupDriverEffect(o) ==
    [driver |-> IF o = "ok" THEN created + 1 ELSE driver,
     live |-> IF o = "no_browser" THEN live ELSE live \cup {created + 1},
     created |-> IF o = "no_browser" THEN created ELSE created + 1,
     ret |-> IF o = "ok" THEN "None" ELSE "raised"]

\* GmailAutomation(headless): self.driver = None, then setup_driver().
Construct(o) ==
    /\ obj = "none"
    /\ pc = "idle"
    /\ created < MaxSessions
    /\ LET e == SetupDriverEffect(o)
       IN /\ obj' = IF e.ret = "raised" THEN "broken" ELSE "ok"
          /\ driver' = e.driver
          /\ live' = e.live
          /\ created' = e.created
          /\ ret' = e.ret
          /\ clean' = (clean /\ o = "ok")
          /\ oplog' = IF o = "ok" THEN oplog ELSE << >>
    /\ op' = "construct"
    /\ calls' = calls + 1
    /\ NewCall
    /\ UNCHANGED << attempt, step, cand, pc, exc, typeVars >>

\* setup_driver() called on an existing controller.
setup_driver(o) ==
    /\ obj # "none"
    /\ pc = "idle"
    /\ created < MaxSessions
    /\ LET e == SetupDriverEffect(o)
       IN /\ driver' = e.driver
          /\ live' = e.live
          /\ created' = e.created
          /\ ret' = e.ret
          /\ clean' = (clean /\ o = "ok")
          /\ oplog' = IF o = "ok" THEN oplog ELSE << >>
    /\ op' = "setup_driver"
    /\ calls' = calls + 1
    /\ NewCall
    /\ UNCHANGED << obj, attempt, step, cand, pc, exc, typeVars >>

\* close() without its try/except around quit().
CloseResultUnguarded(quitOk) == IF quitOk THEN "None" ELSE "raised"

\* How close() ends when self.driver.quit() succeeded (quitOk) or raised: the
\* except clause logs the error and the method returns.
CloseResult(quitOk) == "None"

\* close(): quit the session self.driver refers to, if there is one. A quit
\* that raises may or may not have ended the browser (gone).
close(quitOk, gone) ==
    /\ obj # "none"
    /\ pc = "idle"
    /\ IF driver # 0
       THEN /\ quitOk \in DriverOutcomes
            /\ quitOk => gone
            /\ live' = IF gone THEN live \ {driver} ELSE live
            /\ ret' = CloseResult(quitOk)
       ELSE /\ quitOk /\ gone
            /\ live' = live
            /\ ret' = "None"
    /\ op' = "close"
    /\ calls' = calls + 1
    /\ NewCall
    /\ UNCHANGED << obj, driver, created, attempt, step, cand, pc, exc, typeVars, clean,
                    oplog >>

(***************************************************************************)
(* Control flow shared by the blocks of login_to_gmail and of              *)
(* compose_and_send_email.                                                 *)
(***************************************************************************)
Goto(s, c, p) == step' = s /\ cand' = c /\ pc' = p

\* raise: control passes to the except clause of the attempt loop.
Raise(e) == pc' = "except" /\ exc' = e /\ UNCHANGED << step, cand >>

\* Every block raising the message of the first one (a copied raise statement).
RuntimeErrorCopied(s) == [type |-> "RuntimeError", msg |-> FailMessage("nav")]

\* raise RuntimeError("Could not ...") of block s.
RuntimeError(s) == [type |-> "RuntimeError", msg |-> FailMessage(s)]

\* An exception of the driver (TimeoutException, WebDriverException, ...).
DriverError == [type |-> "DriverError", msg |-> << >>]

\* The call returns r, or ends by raising (r = "raised").
Finish(r) ==
    /\ ret' = r
    /\ pc' = "idle"
    /\ step' = "none"
    /\ cand' = 0
    /\ attempt' = 0
    /\ exc' = NoExc

\* The observer's log: operation o completed; a driver operation failed.
Log(o) == oplog' = Logged(o) /\ clean' = clean
\* The observer's record of the attempt in progress once operation o completed.
Did(o) == [obs EXCEPT !.steps = Append(@, o)]
Dirty == oplog' = << >> /\ clean' = FALSE

\* A cascade that gives up at the first candidate that fails.
CandidateFailedNoFallback == Raise(RuntimeError(step))

\* A candidate's try block raised, or its human_type returned False: the loop
\* continues with the next candidate; after the last one the block raises.
CandidateFailed ==
    IF cand < Len(Candidates(step))
    THEN Goto(step, cand + 1, "try") /\ exc' = exc
    ELSE Raise(RuntimeError(step))

\* A cascade without its break: the loop goes on after a candidate succeeded.
CandidateSucceededNoBreak ==
    /\ IF cand < Len(Candidates(step))
       THEN Goto(step, cand + 1, "try")
       ELSE Goto(StepAfter(step), 1, "try")
    /\ exc' = exc
    /\ Log(OpName(step))

\* The candidate's element completed the step: break, and the next block.
CandidateSucceeded ==
    /\ Goto(StepAfter(step), 1, "try")
    /\ exc' = exc
    /\ Log(OpName(step))

\* human_type(element, text) is entered: f is what the element holds.
EnterHumanType(t, f) ==
    /\ text' = t
    /\ field' = f
    /\ ti' = 1
    /\ typ' = [NoTyp EXCEPT !.field0 = f]
    /\ pc' = "t_clear"

LeaveHumanType ==
    /\ text' = << >>
    /\ field' = << >>
    /\ ti' = 0
    /\ typ' = NoTyp

InFlow == op \in {"login", "send"}

(***************************************************************************)
(* human_type and clear_field.                                             *)
(***************************************************************************)
\* The free caller's call human_type(element, t) on an element holding f.
human_type(t, f) ==
    /\ obj # "none"
    /\ pc = "idle"
    /\ op' = "human_type"
    /\ ret' = "pending"
    /\ EnterHumanType(t, f)
    /\ calls' = calls + 1
    /\ NewCall
    /\ UNCHANGED << ctlVars, attempt, step, cand, exc, clean, oplog >>

\* Where human_type continues after clear_field returned.
AfterClear ==
    IF typ.reads > 0 THEN "t_resend"
    ELSE IF Len(text) = 0 THEN "t_read" ELSE "t_char"

\* clear_field: select-all and delete; either key-send may raise, and the
\* except clause of human_type then returns False.
clear_field ==
    /\ pc = "t_clear"
    /\ \E ok \in DriverOutcomes :
          IF ok
          THEN /\ field' = << >>
               /\ typ' = [typ EXCEPT !.clears = @ + 1]
               /\ pc' = AfterClear
          ELSE /\ field' = field
               /\ typ' = [typ EXCEPT !.raised = TRUE, !.result = "False"]
               /\ pc' = "t_ret"
    /\ UNCHANGED << client, shellVars, ctlVars, calls, op, ret, maxAtt, attempt, step,
                    cand, exc, text, ti, obs, cas, clean, oplog >>

\* The outcomes of one send_keys(s): it raises (ok is FALSE), or the field
\* receives got, a delivery of s.
KeyRaised == [ok |-> FALSE, got |-> << >>]
KeyOutcomes(s) ==
    IF Alive
    THEN {[ok |-> TRUE, got |-> d] : d \in Deliveries(s)} \cup {KeyRaised}
    ELSE {KeyRaised}

\* for char in text: element.send_keys(char)
type_char ==
    /\ pc = "t_char"
    /\ \E d \in KeyOutcomes(<< text[ti] >>) :
          IF ~d.ok
          THEN /\ field' = field
               /\ ti' = ti
               /\ typ' = [typ EXCEPT !.raised = TRUE, !.result = "False"]
               /\ pc' = "t_ret"
          ELSE /\ field' = field \o d.got
               /\ ti' = ti + 1
               /\ typ' = [typ EXCEPT !.keys = Append(@, << text[ti] >>)]
               /\ pc' = IF ti = Len(text) THEN "t_read" ELSE "t_char"
    /\ UNCHANGED << client, shellVars, ctlVars, calls, op, ret, maxAtt, attempt, step,
                    cand, exc, text, obs, cas, clean, oplog >>

\* The verification without its strip() calls.
MismatchUntrimmed(entered, t) == entered # t

\* The verification with its comparison inverted (== for !=).
MismatchInverted(entered, t) == Strip(entered) = Strip(t)

\* The verification of human_type: the value read back, trimmed, against the
\* text, trimmed.
Mismatch(entered, t) == Strip(entered) # Strip(t)

\* entered_text = element.get_attribute('value'); on a mismatch the field is
\* cleared and typed again, otherwise human_type returns True.
read_back ==
    /\ pc = "t_read"
    /\ \E ok \in DriverOutcomes :
          IF ~ok
          THEN /\ typ' = [typ EXCEPT !.raised = TRUE, !.result = "False"]
               /\ pc' = "t_ret"
          ELSE IF Mismatch(field, text)
          THEN /\ typ' = [typ EXCEPT !.reads = @ + 1, !.seen = field]
               /\ pc' = "t_clear"
          ELSE /\ typ' = [typ EXCEPT !.reads = @ + 1, !.seen = field,
                                      !.result = "True"]
               /\ pc' = "t_ret"
    /\ UNCHANGED << client, shellVars, ctlVars, calls, op, ret, maxAtt, attempt, step,
                    cand, exc, text, field, ti, obs, cas, clean, oplog >>

\* element.send_keys(text), the full retry, then return True with no further
\* read-back.
retype ==
    /\ pc = "t_resend"
    /\ \E d \in KeyOutcomes(text) :
          IF ~d.ok
          THEN /\ field' = field
               /\ typ' = [typ EXCEPT !.raised = TRUE, !.result = "False"]
          ELSE /\ field' = field \o d.got
               /\ typ' = [typ EXCEPT !.keys = Append(@, text), !.retypes = @ + 1,
                                      !.got = d.got, !.result = "True"]
    /\ pc' = "t_ret"
    /\ UNCHANGED << client, shellVars, ctlVars, calls, op, ret, maxAtt, attempt, step,
                    cand, exc, text, ti, obs, cas, clean, oplog >>

\* human_type returns to a free caller.
type_return_caller ==
    /\ pc = "t_ret"
    /\ op = "human_type"
    /\ ret' = typ.result
    /\ pc' = "idle"
    /\ LeaveHumanType
    /\ UNCHANGED << client, shellVars, ctlVars, calls, op, maxAtt, attempt, step, cand,
                    exc, obs, cas, clean, oplog >>

\* human_type returns to a typing cascade: True sets the success flag and
\* breaks, False falls through to the next candidate.
type_return_cascade ==
    /\ pc = "t_ret"
    /\ InFlow
    /\ IF typ.result = "True"
       THEN /\ CandidateSucceeded
            /\ cas' = [cas EXCEPT !.used = cand]
            /\ obs' = Did(OpName(step))
       ELSE /\ CandidateFailed
            /\ Dirty
            /\ cas' = [cas EXCEPT !.rejected = @ \cup {cand}]
            /\ obs' = obs
    /\ LeaveHumanType
    /\ UNCHANGED << client, shellVars, ctlVars, calls, op, ret, maxAtt, attempt >>

(***************************************************************************)
(* The selector cascades.                                                  *)
(***************************************************************************)
\* The observer's record once candidate cand has been waited for.
Tried(ok) ==
    LET c == IF cand = 1 THEN [NoCas EXCEPT !.name = step] ELSE cas
    IN [c EXCEPT !.tried = @ \cup {cand},
                 !.resolved = IF ok THEN @ \cup {cand} ELSE @]

\* WebDriverWait(...).until(visibility_of_element_located / element_to_be_
\* clickable) for candidate cand: the element, or a timeout.
resolve_candidate ==
    /\ InFlow
    /\ step \in Cascades
    /\ pc = "try"
    /\ \E ok \in DriverOutcomes :
       \E f \in IF ok /\ Kind(step) = "type" THEN InitialContents ELSE {<< >>} :
          /\ cas' = Tried(ok)
          /\ obs' = [obs EXCEPT !.anyResolved = @ \/ ok,
                                !.pwdResolved = @ \/ (ok /\ step = "password")]
          /\ IF ok /\ Kind(step) = "type"
             THEN /\ EnterHumanType(InputText(step), f)
                  /\ UNCHANGED << step, cand, exc, clean, oplog >>
             ELSE IF ok
             THEN /\ pc' = "resolved"
                  /\ UNCHANGED << step, cand, exc, typeVars, clean, oplog >>
             ELSE /\ CandidateFailed
                  /\ Dirty
                  /\ UNCHANGED typeVars
    /\ UNCHANGED << client, shellVars, ctlVars, calls, op, ret, maxAtt, attempt >>

\* next_btn.click(), submit_btn.click(), send_btn.click()
click_candidate ==
    /\ InFlow
    /\ step \in Cascades
    /\ Kind(step) = "click"
    /\ pc = "resolved"
    /\ \E ok \in DriverOutcomes :
          IF ok
          THEN /\ CandidateSucceeded
               /\ cas' = [cas EXCEPT !.used = cand]
               /\ obs' = [Did(OpName(step)) EXCEPT
                            !.submitClicks = IF step = "submit" THEN @ + 1 ELSE @,
                            !.sendClicks = IF step = "send" THEN @ + 1 ELSE @]
          ELSE /\ CandidateFailed
               /\ Dirty
               /\ cas' = [cas EXCEPT !.rejected = @ \cup {cand}]
               /\ obs' = obs
    /\ UNCHANGED << client, shellVars, ctlVars, calls, op, ret, maxAtt, attempt, typeVars >>

\* body_field.click(); body_field.send_keys(body)
fill_body ==
    /\ InFlow
    /\ step = "body"
    /\ pc = "resolved"
    /\ \E ok \in DriverOutcomes :
          IF ok
          THEN /\ CandidateSucceeded
               /\ cas' = [cas EXCEPT !.used = cand]
               /\ obs' = Did(OpName(step))
          ELSE /\ CandidateFailed
               /\ Dirty
               /\ cas' = [cas EXCEPT !.rejected = @ \cup {cand}]
               /\ obs' = obs
    /\ UNCHANGED << client, shellVars, ctlVars, calls, op, ret, maxAtt, attempt, typeVars >>

(***************************************************************************)
(* login_to_gmail.                                                         *)
(***************************************************************************)
\* The call login_to_gmail(email, password, m): range(1, m + 1) is empty for
\* m < 1, and the method then falls off its end and returns None.
login_to_gmail(m) ==
    /\ obj # "none"
    /\ pc = "idle"
    /\ op' = "login"
    /\ maxAtt' = m
    /\ exc' = NoExc
    /\ cas' = NoCas
    /\ calls' = calls + 1
    /\ IF m >= 1
       THEN /\ attempt' = 1
            /\ Goto("nav", 1, "try")
            /\ ret' = "pending"
            /\ obs' = [NoObs EXCEPT !.attempts = 1]
       ELSE /\ attempt' = 0
            /\ Goto("none", 0, "idle")
            /\ ret' = "None"
            /\ obs' = NoObs
    /\ UNCHANGED << ctlVars, typeVars, clean, oplog >>

\* driver.get(url), wait_for_page_load(), and the test of current_url.
NavOutcomes == IF Alive THEN {"landed", "elsewhere", "raised"} ELSE {"raised"}

\* The url loop without its else clause: with no url landed, the attempt goes
\* on to the email field.
login_navigate_no_else ==
    /\ op = "login"
    /\ step = "nav"
    /\ pc = "try"
    /\ \E o \in NavOutcomes :
          /\ cas' = Tried(o = "landed")
          /\ IF o = "landed"
             THEN /\ Goto("email", 1, "try")
                  /\ Log(OpName("nav"))
                  /\ obs' = Did(OpName("nav"))
             ELSE /\ Dirty
                  /\ obs' = obs
                  /\ IF cand < Len(urls)
                     THEN Goto("nav", cand + 1, "try")
                     ELSE Goto("email", 1, "try")
    /\ UNCHANGED << client, shellVars, ctlVars, calls, op, ret, maxAtt, attempt, typeVars,
                    exc >>

\* One iteration of `for url in urls`: break on an expected host, continue
\* otherwise; the loop's else clause raises.
login_navigate ==
    /\ op = "login"
    /\ step = "nav"
    /\ pc = "try"
    /\ \E o \in NavOutcomes :
          /\ cas' = Tried(o = "landed")
          /\ IF o = "landed"
             THEN /\ Goto("email", 1, "try")
                  /\ exc' = exc
                  /\ Log(OpName("nav"))
                  /\ obs' = Did(OpName("nav"))
             ELSE /\ Dirty
                  /\ obs' = obs
                  /\ IF cand < Len(urls)
                     THEN Goto("nav", cand + 1, "try") /\ exc' = exc
                     ELSE Raise(RuntimeError("nav"))
    /\ UNCHANGED << client, shellVars, ctlVars, calls, op, ret, maxAtt, attempt, typeVars >>

\* WebDriverWait(30) for the Compose landmark, then return True.
login_verify ==
    /\ op = "login"
    /\ step = "landmark"
    /\ pc = "try"
    /\ \E ok \in DriverOutcomes :
          IF ok
          THEN /\ Finish("True")
               /\ Log(OpName("landmark"))
               /\ obs' = Did(OpName("landmark"))
          ELSE /\ Raise(DriverError)
               /\ Dirty
               /\ UNCHANGED << ret, attempt, obs >>
    /\ UNCHANGED << client, shellVars, ctlVars, calls, op, maxAtt, typeVars, cas >>

\* The except clause of an attempt: is this the last attempt?
LastAttempt == attempt = maxAtt

\* The except clause after the last attempt: save_screenshot, return False. A
\* save_screenshot that raises ends the call with that exception.
FinalFailure ==
    /\ pc = "except"
    /\ LastAttempt
    /\ \E ok \in DriverOutcomes :
          IF ok
          THEN /\ Finish("False")
               /\ obs' = [obs EXCEPT !.shots = @ + 1, !.shotAt = @ \cup {attempt}]
          ELSE /\ Finish("raised")
               /\ obs' = obs
    /\ UNCHANGED << client, shellVars, ctlVars, calls, op, maxAtt, typeVars, cas, clean,
                    oplog >>

login_final_failure == op = "login" /\ FinalFailure

\* A retry that does not advance the attempt counter (a while loop that forgot
\* its increment).
NextAttemptNotCounted(s) ==
    /\ attempt' = attempt
    /\ Goto(s, 1, "try")
    /\ exc' = NoExc
    /\ ret' = ret

\* The next attempt begins at block s.
NextAttempt(s) ==
    /\ attempt' = attempt + 1
    /\ Goto(s, 1, "try")
    /\ exc' = NoExc
    /\ ret' = ret

\* The except clause before a retry: delete_all_cookies, human_delay(5, 10),
\* and the next attempt. A delete_all_cookies that raises ends the call.
login_retry ==
    /\ op = "login"
    /\ pc = "except"
    /\ ~LastAttempt
    /\ \E ok \in DriverOutcomes :
          IF ok
          THEN /\ NextAttempt("nav")
               /\ obs' = [obs EXCEPT !.cookieClears = @ + 1, !.backoffs = @ + 1,
                                     !.attempts = @ + 1, !.steps = << >>]
               /\ cas' = NoCas
          ELSE /\ Finish("raised")
               /\ obs' = obs
               /\ cas' = cas
    /\ UNCHANGED << client, shellVars, ctlVars, calls, op, maxAtt, typeVars, clean, oplog >>

(***************************************************************************)
(* compose_and_send_email.                                                 *)
(***************************************************************************)
\* The call compose_and_send_email(recipient, subject, body, m).
compose_and_send_email(m) ==
    /\ obj # "none"
    /\ pc = "idle"
    /\ op' = "send"
    /\ maxAtt' = m
    /\ exc' = NoExc
    /\ cas' = NoCas
    /\ calls' = calls + 1
    /\ IF m >= 1
       THEN /\ attempt' = 1
            /\ Goto("compose", 1, "try")
            /\ ret' = "pending"
            /\ obs' = [NoObs EXCEPT !.attempts = 1]
       ELSE /\ attempt' = 0
            /\ Goto("none", 0, "idle")
            /\ ret' = "None"
            /\ obs' = NoObs
    /\ UNCHANGED << ctlVars, typeVars, clean, oplog >>

\* WebDriverWait(20) for a clickable Compose button, then compose_btn.click().
open_compose ==
    /\ op = "send"
    /\ step = "compose"
    /\ pc = "try"
    /\ \E ok \in DriverOutcomes :
          IF ok
          THEN /\ Goto("dialog", 1, "try")
               /\ exc' = exc
               /\ UNCHANGED << clean, oplog >>
          ELSE /\ Raise(DriverError)
               /\ Dirty
    /\ UNCHANGED << client, shellVars, ctlVars, calls, op, ret, maxAtt, attempt, typeVars,
                    obs, cas >>

\* WebDriverWait(15) for the compose dialog to be visible.
wait_dialog ==
    /\ op = "send"
    /\ step = "dialog"
    /\ pc = "try"
    /\ \E ok \in DriverOutcomes :
          IF ok
          THEN /\ Goto("recipient", 1, "try")
               /\ exc' = exc
               /\ Log(OpName("dialog"))
               /\ obs' = Did(OpName("dialog"))
          ELSE /\ Raise(DriverError)
               /\ Dirty
               /\ obs' = obs
    /\ UNCHANGED << client, shellVars, ctlVars, calls, op, ret, maxAtt, attempt, typeVars,
                    cas >>

\* WebDriverWait(15) for the dialog to be invisible, then return True.
confirm_sent ==
    /\ op = "send"
    /\ step = "confirm"
    /\ pc = "try"
    /\ \E ok \in DriverOutcomes :
          IF ok
          THEN /\ Finish("True")
               /\ Log(OpName("confirm"))
               /\ obs' = [Did(OpName("confirm")) EXCEPT !.confirmed = TRUE]
          ELSE /\ Raise(DriverError)
               /\ Dirty
               /\ UNCHANGED << ret, attempt, obs >>
    /\ UNCHANGED << client, shellVars, ctlVars, calls, op, maxAtt, typeVars, cas >>

send_final_failure == op = "send" /\ FinalFailure

\* The except clause before a retry: a best-effort click on the dialog's close
\* control (its failure is swallowed), human_delay(5, 10), the next attempt.
send_retry ==
    /\ op = "send"
    /\ pc = "except"
    /\ ~LastAttempt
    /\ \E closed \in DriverOutcomes :
          /\ NextAttempt("compose")
          /\ obs' = [obs EXCEPT !.closeTries = @ + 1, !.backoffs = @ + 1,
                                !.attempts = @ + 1, !.steps = << >>]
          /\ cas' = NoCas
    /\ UNCHANGED << client, shellVars, ctlVars, calls, op, maxAtt, typeVars, clean, oplog >>

(***************************************************************************)
(* A free caller: any sequence of method calls on one controller.          *)
(***************************************************************************)
FreeCall == client = "free" /\ calls < MaxCalls

FreeConstruct ==
    /\ FreeCall
    /\ \E o \in InitChromeOutcomes : Construct(o)
    /\ UNCHANGED << client, shellVars >>

FreeSetupDriver ==
    /\ FreeCall
    /\ \E o \in InitChromeOutcomes : setup_driver(o)
    /\ UNCHANGED << client, shellVars >>

FreeLogin ==
    /\ FreeCall
    /\ \E m \in 0..MaxAttemptsArg : login_to_gmail(m)
    /\ UNCHANGED << client, shellVars >>

FreeSend ==
    /\ FreeCall
    /\ \E m \in 0..MaxAttemptsArg : compose_and_send_email(m)
    /\ UNCHANGED << client, shellVars >>

FreeHumanType ==
    /\ FreeCall
    /\ \E t \in Texts, f \in InitialContents : human_type(t, f)
    /\ UNCHANGED << client, shellVars >>

FreeClose ==
    /\ FreeCall
    /\ \E quitOk \in BOOLEAN, gone \in BOOLEAN : close(quitOk, gone)
    /\ UNCHANGED << client, shellVars >>

(***************************************************************************)
(* The shell's Send Email action (ui.py, main).                            *)
(***************************************************************************)
\* if st.button("Send Email"): all five fields must be filled in.
shell_click ==
    /\ shell = "start"
    /\ \E filled \in BOOLEAN :
          IF filled
          THEN shell' = "init" /\ status' = status
          ELSE shell' = "done" /\ status' = "fill_in_all_fields"
    /\ UNCHANGED << client, ctlVars, calls, callVars, typeVars, obs, cas, clean, oplog >>

\* A shell that does not test the status a call returned.
ShellAfterUntested(r, okShell, failShell, okStatus, failStatus) ==
    IF r = "raised" THEN shell' = "done" /\ status' = "error"
    ELSE shell' = okShell /\ status' = okStatus

\* What the shell shows when a call made inside its try block has ended as r,
\* and where it goes: the outer except clause shows the error and ends the
\* action without closing.
ShellAfter(r, okShell, failShell, okStatus, failStatus) ==
    IF r = "raised" THEN shell' = "done" /\ status' = "error"
    ELSE IF r = "True" THEN shell' = okShell /\ status' = okStatus
    ELSE shell' = failShell /\ status' = failStatus

\* automation = GmailAutomation(headless=headless_mode)
shell_construct ==
    /\ shell = "init"
    /\ \E o \in InitChromeOutcomes :
          /\ Construct(o)
          /\ IF SetupDriverEffect(o).ret = "raised"
             THEN shell' = "done" /\ status' = "error"
             ELSE shell' = "login" /\ status' = status
    /\ client' = client

\* login_status = automation.login_to_gmail(email, password)
shell_login ==
    /\ shell = "login"
    /\ login_to_gmail(DefaultMaxAttempts)
    /\ shell' = "in_login"
    /\ UNCHANGED << client, status >>

\* if not login_status: show the login failure and close; else go on to send.
shell_login_returned ==
    /\ shell = "in_login"
    /\ pc = "idle"
    /\ ShellAfter(ret, "send", "close", status, "login_failed")
    /\ UNCHANGED << client, ctlVars, calls, callVars, typeVars, obs, cas, clean, oplog >>

\* send_status = automation.compose_and_send_email(recipient, subject, body)
shell_send ==
    /\ shell = "send"
    /\ compose_and_send_email(DefaultMaxAttempts)
    /\ shell' = "in_send"
    /\ UNCHANGED << client, status >>

\* Show success or the send failure, then close.
shell_send_returned ==
    /\ shell = "in_send"
    /\ pc = "idle"
    /\ ShellAfter(ret, "close", "close", "success", "send_failed")
    /\ UNCHANGED << client, ctlVars, calls, callVars, typeVars, obs, cas, clean, oplog >>

\* automation.close()
shell_close ==
    /\ shell = "close"
    /\ \E quitOk \in BOOLEAN, gone \in BOOLEAN :
          /\ close(quitOk, gone)
          /\ status' = IF CloseResult(quitOk) = "raised" THEN "error" ELSE status
    /\ shell' = "done"
    /\ client' = client

(***************************************************************************)
(* The specification.                                                      *)
(***************************************************************************)
Next ==
    \/ FreeConstruct
    \/ FreeSetupDriver
    \/ FreeLogin
    \/ FreeSend
    \/ FreeHumanType
    \/ FreeClose
    \/ shell_click
    \/ shell_construct
    \/ shell_login
    \/ shell_login_returned
    \/ shell_send
    \/ shell_send_returned
    \/ shell_close
    \/ clear_field
    \/ type_char
    \/ read_back
    \/ retype
    \/ type_return_caller
    \/ type_return_cascade
    \/ resolve_candidate
    \/ click_candidate
    \/ fill_body
    \/ login_navigate
    \/ login_verify
    \/ login_final_failure
    \/ login_retry
    \/ open_compose
    \/ wait_dialog
    \/ confirm_sent
    \/ send_final_failure
    \/ send_retry

Spec == Init /\ [][Next]_vars

(***************************************************************************)
(* Properties.                                                             *)
(***************************************************************************)
\* A call of method m has ended (returned or raised).
Ended(m) == pc = "idle" /\ op = m

\* C1: login_to_gmail with max_attempts=3 in an environment where every
\* element resolution fails makes exactly 3 attempts and captures exactly one
\* screenshot, after the 3rd attempt and never after attempt 1 or 2.
C1_ThreeAttemptsOneScreenshot ==
    /\ (op = "login" /\ maxAtt = 3) => obs.shotAt \subseteq {3}
    /\ (Ended("login") /\ maxAtt = 3 /\ ~obs.anyResolved) =>
          /\ obs.attempts = 3
          /\ obs.shots = 1
          /\ obs.shotAt = {3}

\* What remains of C1 once the except clause's own driver calls are set aside:
\* in every such call that does not end by raising, there are exactly 3
\* attempts and one screenshot, taken after the 3rd.
C1_HoldsUnlessHandlerRaises ==
    (Ended("login") /\ maxAtt = 3 /\ ~obs.anyResolved /\ ret # "raised") =>
        /\ obs.attempts = 3
        /\ obs.shots = 1
        /\ obs.shotAt = {3}

\* C2: if the password field never resolves for any password candidate in any
\* attempt, login_to_gmail returns failure and the submit control is never
\* clicked in any attempt.
C2_NoPasswordNoSubmit ==
    /\ (op = "login" /\ ~obs.pwdResolved) => obs.submitClicks = 0
    /\ (Ended("login") /\ maxAtt >= 1 /\ ~obs.pwdResolved) => ret = "False"

\* What remains of C2 once the except clause's own driver calls are set aside:
\* a call that does not end by raising returns False.
C2_HoldsUnlessHandlerRaises ==
    (Ended("login") /\ maxAtt >= 1 /\ ~obs.pwdResolved /\ ret # "raised") =>
        (ret = "False" /\ obs.submitClicks = 0)

\* C3: close() never raises, whatever state the controller is in: called twice
\* in succession, with self.driver None, after a failed login or send, and
\* when quit() itself fails.
C3_CloseNeverRaises == Ended("close") => ret = "None"

\* close() has returned normally although quit() raised and left the browser
\* running.
C3_Witness == Ended("close") /\ ret = "None" /\ driver # 0 /\ Alive

\* The operations of the end-to-end scenario, in order.
HappyPath ==
    << "navigate", "fill-email", "click-next", "fill-password", "click-submit",
       "detect-landmark", "open-compose", "fill-recipient", "fill-subject",
       "fill-body", "click-send", "detect-dialog-closed" >>

IsPrefix(s, t) == Len(s) <= Len(t) /\ SubSeq(t, 1, Len(s)) = s

\* C4: when every selector resolves on its first try and every wait succeeds,
\* the shell's login followed by send performs exactly the twelve operations
\* of HappyPath, each once and in that order, and reports success.
C4_HappyPathSequence ==
    (client = "shell" /\ clean) =>
        /\ IsPrefix(oplog, HappyPath)
        /\ (shell = "done" /\ status # "fill_in_all_fields") =>
              (status = "success" /\ oplog = HappyPath)
        /\ status \in {"none", "success", "fill_in_all_fields"}

\* The shell has finished a run in which nothing failed.
C4_Witness ==
    /\ client = "shell"
    /\ clean
    /\ shell = "done"
    /\ status = "success"
    /\ oplog = HappyPath

\* The indices of the candidates of cascade s.
Indices(s) == 1..Len(Candidates(s))

\* The cascade the observer's record is about has been exhausted and has raised.
CascadeFailed ==
    /\ pc = "except"
    /\ step \in Cascades
    /\ cas.name = step
    /\ exc.type = "RuntimeError"

\* The cascade the observer's record is about has completed its step.
CascadeSucceeded == cas.name \in Cascades /\ cas.used # 0

\* C5 as claimed: in every cascade in which exactly one candidate resolves, the
\* step succeeds using that candidate's element, whatever its position.
C5_SoleResolverWins ==
    (cas.name \in Cascades /\ Cardinality(cas.resolved) = 1
        /\ (CascadeSucceeded \/ CascadeFailed))
    => cas.used \in cas.resolved

\* C5 as amended: a cascade succeeds only with a candidate that resolved and
\* whose element took the typing or the click, after trying and skipping every
\* earlier candidate; and it fails only after trying every candidate, each of
\* which either did not resolve or resolved to an element that then failed the
\* typing or the click. So a sole resolving candidate whose element takes the
\* interaction completes the step, whatever its position.
C5_SoleWorkingResolverWins ==
    /\ CascadeSucceeded =>
          /\ cas.used \in cas.resolved \ cas.rejected
          /\ cas.tried = 1..cas.used
          /\ cas.resolved \ {cas.used} \subseteq cas.rejected
    /\ CascadeFailed =>
          /\ cas.tried = Indices(step)
          /\ cas.resolved \subseteq cas.rejected

\* The email step succeeded with its last candidate, the only one to resolve.
C5_Witness ==
    /\ cas.name = "email"
    /\ cas.used = Len(email_selectors)
    /\ cas.resolved = {Len(email_selectors)}
    /\ cas.tried = Indices("email")

\* The selectors an exception's message names.
Listed(e) == {e.msg[j] : j \in 1..Len(e.msg)}

\* C6 as claimed: when no candidate of a cascade resolves, the resolution fails
\* with an ElementNotFound failure that lists all attempted candidates.
C6_ElementNotFoundListsCandidates ==
    (CascadeFailed /\ cas.resolved = {}) =>
        /\ exc.type = "ElementNotFound"
        /\ \A i \in cas.tried : Candidates(step)[i] \in Listed(exc)

\* A wait for a candidate of a cascade that times out.
FailedWait == InFlow /\ step \in Cascades /\ pc = "try" /\ cand \notin cas'.resolved

\* The blocks whose exhaustion raises a RuntimeError.
RaisingBlocks == Cascades \cup {"nav"}

\* C6 as amended: when no candidate of a cascade resolves, the step fails with
\* a RuntimeError whose message is that of this step and of no other, and
\* names none of the attempted candidates; and a wait that times out leaves
\* the page's field and the controller's session state unchanged.
C6_StepFailureNamesStepOnly ==
    [][ /\ FailedWait => UNCHANGED << typeVars, ctlVars >>
        /\ (CascadeFailed /\ cas.resolved = {})' =>
              /\ exc'.type = "RuntimeError"
              /\ exc'.msg # << >>
              /\ \A s \in RaisingBlocks \ {step'} : exc'.msg # FailMessage(s)
              /\ \A i \in Indices(step') : Candidates(step')[i] \notin Listed(exc')
      ]_vars

\* The send cascade has been exhausted without any candidate resolving.
C6_Witness ==
    /\ CascadeFailed
    /\ step = "send"
    /\ cas.tried = Indices("send")
    /\ cas.resolved = {}

\* C7: login_to_gmail and compose_and_send_email report every failure as a
\* boolean and never raise: for every behaviour of the driver and every
\* max_attempts value, each call returns True or False.
C7_AlwaysBoolean ==
    (Ended("login") \/ Ended("send")) => ret \in {"True", "False"}

\* C8: sending has no partial-success state: a compose_and_send_email that
\* returns failure has not clicked the send control in any attempt, and one
\* that returns success has clicked it and has seen the dialog close.
C8_NoPartialSuccess ==
    Ended("send") =>
        /\ ret = "False" => obs.sendClicks = 0
        /\ ret = "True" => (obs.sendClicks >= 1 /\ obs.confirmed)

\* human_type is about to return True for a field that was empty when it was
\* called.
TypedIntoEmpty == pc = "t_ret" /\ typ.result = "True" /\ typ.field0 = << >>

\* C9 as claimed: typing T with human_type into an empty field leaves the
\* field equal to T, trimmed, by the time human_type returns success, at the
\* latest after its single corrective retype.
C9_FieldHoldsText == TypedIntoEmpty => Strip(field) = Strip(text)

\* C9 as amended: when human_type returns success for a field that was empty,
\* either no retype was needed and the field equals T, trimmed, or exactly one
\* corrective retype was made into the cleared field and the field holds what
\* the page received of it: T itself when no keystroke of the retype was lost,
\* something else when one was, as the retype is not read back.
C9_FieldHoldsTextOrRetyped ==
    TypedIntoEmpty =>
        /\ typ.retypes \in {0, 1}
        /\ typ.reads = 1
        /\ typ.retypes = 0 => Strip(field) = Strip(text)
        /\ typ.retypes = 1 => field = typ.got
        /\ (typ.retypes = 1 /\ typ.got = text) => field = text

\* human_type returns True after a corrective retype that delivered the text.
C9_Witness ==
    /\ TypedIntoEmpty
    /\ typ.retypes = 1
    /\ Len(text) = 2
    /\ field = text

\* C10: a controller holds at most one active browser session: no second
\* session is created while one is live, and after close() none is active.
C10_AtMostOneSession ==
    /\ Cardinality(live) <= 1
    /\ created <= 1
    /\ Ended("close") => live = {}

\* C11: for every failed login attempt that is not the last one, the attempt is
\* aborted at the failing step, cookies are cleared and a backoff wait occurs
\* before the next attempt starts again from navigation; after the final failed
\* attempt a screenshot is captured and failure is reported, with no retry.
C11_RetryClearsCookiesFinalReportsFailure ==
    /\ (op = "login" /\ maxAtt >= 1) =>
          /\ obs.cookieClears = obs.attempts - 1
          /\ obs.backoffs = obs.attempts - 1
    /\ (op = "login" /\ pc = "try" /\ obs.steps = << >>) => step = "nav"
    /\ (Ended("login") /\ maxAtt >= 1 /\ ret # "True") =>
          /\ obs.attempts = maxAtt
          /\ obs.shots = 1
          /\ obs.shotAt = {maxAtt}
          /\ ret = "False"

\* What remains of C11 once the except clause's own driver calls are set aside:
\* the same, of every call that does not end by raising.
C11_HoldsUnlessHandlerRaises ==
    /\ (op = "login" /\ maxAtt >= 1) =>
          /\ obs.cookieClears = obs.attempts - 1
          /\ obs.backoffs = obs.attempts - 1
    /\ (op = "login" /\ pc = "try" /\ obs.steps = << >>) => step = "nav"
    /\ (Ended("login") /\ maxAtt >= 1 /\ ret \notin {"True", "raised"}) =>
          /\ obs.attempts = maxAtt
          /\ obs.shots = 1
          /\ obs.shotAt = {maxAtt}
          /\ ret = "False"

\* The shell shows a result for the first time in this step.
Shows(r) == status' = r /\ status # r

\* compose_and_send_email is invoked in this step.
SendInvoked == op' = "send" /\ op # "send"

\* C12 as stated: the Send Email action yields exactly one of three results
\* (success, login failure, send failure), compose_and_send_email is invoked
\* only after login_to_gmail has returned success, and on login failure no
\* send operation is attempted.
C12_ThreeResults ==
    [][client = "shell" =>
         /\ SendInvoked => (Ended("login") /\ ret = "True")
         /\ (status = "login_failed") => (op' # "send")
         /\ (status' # status) => (status = "none")
         /\ (shell' = "done" /\ shell # "done" /\ status' # "fill_in_all_fields") =>
               status' \in {"success", "login_failed", "send_failed"}]_vars

\* C12, amended: the Send Email action with all fields filled in yields exactly
\* one of four results: success (send returned True), login failure (login
\* returned a false value), send failure (send returned a false value), or the
\* error display when construction, login or send raised; send is invoked only
\* after login_to_gmail has returned True.
C12_FourResults ==
    [][client = "shell" =>
         /\ SendInvoked => (Ended("login") /\ ret = "True")
         /\ (status = "login_failed") => (op' # "send")
         /\ (status' # status) => (status = "none")
         /\ Shows("success") => (Ended("send") /\ ret = "True")
         /\ Shows("login_failed") => (Ended("login") /\ ret \in {"False", "None"})
         /\ Shows("send_failed") => (Ended("send") /\ ret \in {"False", "None"})
         /\ Shows("error") =>
               \/ op' = "construct" /\ ret' = "raised"
               \/ op \in {"login", "send"} /\ pc = "idle" /\ ret = "raised"
         /\ (shell' = "done" /\ shell # "done" /\ status' # "fill_in_all_fields") =>
               status' \in {"success", "login_failed", "send_failed", "error"}]_vars

\* The shell has shown the error display for a send that raised after a login
\* that returned True.
C12_Witness ==
    /\ client = "shell"
    /\ shell = "done"
    /\ status = "error"
    /\ op = "send"

\* The candidates of the observed cascade were tried in list order, each once:
\* the ones tried are the first ones of the list, and the loop is at the last of
\* them or about to try the one after it.
TriedInListOrder ==
    LET k == Cardinality(cas.tried)
    IN /\ cas.tried = 1..k
       /\ k <= Len(Candidates(cas.name))
       /\ (step = cas.name /\ pc = "try") => cand = k + 1
       /\ (step = cas.name /\ pc # "try") => cand = k

\* C13 as stated: every selector cascade tries its candidates in list order, and
\* once a candidate has resolved to an element no later candidate of that
\* cascade is tried, also when typing into or clicking the element then fails.
C13_NoLaterCandidateOnceResolved ==
    cas.name \in Cascades =>
        /\ TriedInListOrder
        /\ \A c \in cas.resolved : \A d \in cas.tried : d <= c

\* C13, amended: every selector cascade tries its candidates in list order,
\* never an earlier one again, and once a candidate's element has completed the
\* step (the typing returned True, the click returned) no later candidate is
\* tried; a candidate that resolved is followed by a later one only if the
\* typing into or the click on its element failed.
C13_NoLaterCandidateOnceCompleted ==
    cas.name \in Cascades =>
        /\ TriedInListOrder
        /\ cas.used # 0 => cas.tried = 1..cas.used
        /\ cas.rejected \subseteq cas.resolved
        /\ \A c \in cas.resolved :
              (\E d \in cas.tried : d > c) => c \in cas.rejected

\* A cascade whose first candidate resolved to an element that failed the
\* interaction, and whose second candidate then completed the step.
C13_Witness ==
    /\ cas.name \in Cascades
    /\ cas.rejected = {1}
    /\ cas.used = 2

\* The operations of one attempt of compose_and_send_email, in the claimed order.
SendSteps ==
    << "open-compose", "fill-recipient", "fill-subject", "fill-body", "click-send",
       "detect-dialog-closed" >>

\* The operations completed in the current attempt before its i-th one.
DoneBefore(i) == {obs.steps[j] : j \in 1..(i - 1)}

\* C14: within every attempt of compose_and_send_email the steps occur in the
\* order dialog visible, recipient filled, subject filled, body filled, send
\* clicked, dialog-invisible wait; the send control is never clicked in an
\* attempt unless recipient, subject and body were filled earlier in that same
\* attempt, and no field is filled before the compose dialog is visible.
C14_SendStepsInOrder ==
    op = "send" =>
        /\ IsPrefix(obs.steps, SendSteps)
        /\ \A i \in 1..Len(obs.steps) :
              /\ obs.steps[i] = "click-send" =>
                    {"fill-recipient", "fill-subject", "fill-body"} \subseteq DoneBefore(i)
              /\ obs.steps[i] \in {"fill-recipient", "fill-subject", "fill-body"} =>
                    "open-compose" \in DoneBefore(i)
        /\ (step \in SendCascades /\ pc \in {"try", "resolved", "t_clear", "t_char",
                                             "t_read", "t_resend", "t_ret"}) =>
              "open-compose" \in DoneBefore(Len(obs.steps) + 1)
        /\ (step = "send" /\ pc \in {"try", "resolved"}) =>
              {"fill-recipient", "fill-subject", "fill-body"}
                  \subseteq DoneBefore(Len(obs.steps) + 1)

\* The send control has been clicked in the second attempt, after the dialog
\* was seen and the three fields were filled in that attempt.
C14_Witness ==
    /\ op = "send"
    /\ obs.attempts = 2
    /\ obs.sendClicks >= 1
    /\ obs.steps = SubSeq(SendSteps, 1, 5)

\* C15: with every attempt of compose_and_send_email failing, exactly
\* max_attempts attempts occur; before each retry a best-effort click on the
\* dialog's close control is tried, whose failure never aborts the retry, and a
\* backoff wait precedes each retry; the screenshot is captured exactly once,
\* after the final attempt only.
C15_SendRetriesThenOneScreenshot ==
    /\ (op = "send" /\ maxAtt >= 1) =>
          /\ obs.closeTries = obs.attempts - 1
          /\ obs.backoffs = obs.attempts - 1
          /\ obs.attempts <= maxAtt
          /\ obs.shotAt \subseteq {maxAtt}
    /\ (Ended("send") /\ maxAtt >= 1 /\ ret # "True") =>
          /\ obs.attempts = maxAtt
          /\ obs.shots = 1
          /\ obs.shotAt = {maxAtt}

\* What remains of C15 once the except clause's own driver call is set aside:
\* the same, of every call that does not end by raising.
C15_HoldsUnlessHandlerRaises ==
    /\ (op = "send" /\ maxAtt >= 1) =>
          /\ obs.closeTries = obs.attempts - 1
          /\ obs.backoffs = obs.attempts - 1
          /\ obs.attempts <= maxAtt
          /\ obs.shotAt \subseteq {maxAtt}
    /\ (Ended("send") /\ maxAtt >= 1 /\ ret \notin {"True", "raised"}) =>
          /\ obs.attempts = maxAtt
          /\ obs.shots = 1
          /\ obs.shotAt = {maxAtt}

\* C16: in each login attempt the entry urls are navigated in list order and
\* navigation stops at the first url that lands on an expected host; if no url
\* lands (or every navigation raises), the attempt fails before any email-field
\* resolution or typing is attempted.
C16_NavigationStopsAtFirstLanding ==
    /\ cas.name = "nav" =>
          LET k == Cardinality(cas.tried)
          IN /\ cas.tried = 1..k
             /\ k <= Len(urls)
             /\ (step = "nav" /\ pc = "try") => cand = k + 1
             /\ cas.resolved \subseteq {k}
             /\ cas.resolved = {} => step \in {"nav", "none"}
             /\ cas.resolved # {} => obs.steps = << "navigate" >>
    /\ (op = "login" /\ step \in LoginCascades \cup {"landmark"}) =>
          /\ obs.steps # << >>
          /\ obs.steps[1] = "navigate"
    /\ (op = "login" /\ pc = "except" /\ step = "nav") =>
          /\ cas.name = "nav"
          /\ cas.tried = 1..Len(urls)
          /\ cas.resolved = {}
          /\ obs.steps = << >>
          /\ exc = RuntimeError("nav")

\* The first url did not land, the second did: the third is not navigated and
\* the attempt is at the email field.
C16_Witness ==
    /\ op = "login"
    /\ cas.name = "nav"
    /\ cas.tried = {1, 2}
    /\ cas.resolved = {2}
    /\ step = "email"

\* The send_keys arguments of typing t one character at a time.
Chars(t) == [i \in 1..Len(t) |-> << t[i] >>]

\* C17: human_type clears the field, sends the characters of the text one at a
\* time in order, reads the content back once, and on a trimmed mismatch clears
\* and sends the full string exactly once more, then returns success without
\* any further read-back, whatever the field then contains; it returns failure
\* only when a driver operation raised.
C17_AtMostOneRetype ==
    /\ typ.reads <= 1
    /\ typ.retypes <= 1
    /\ typ.clears <= 2
    /\ IsPrefix(typ.keys, Chars(text) \o << text >>)
    /\ typ.result = "True" =>
          /\ ~typ.raised
          /\ typ.reads = 1
          /\ (typ.retypes = 1) <=> (Strip(typ.seen) # Strip(text))
          /\ typ.clears = 1 + typ.retypes
          /\ typ.keys = Chars(text) \o (IF typ.retypes = 1 THEN << text >> ELSE << >>)
    /\ typ.result = "False" => typ.raised

\* human_type is about to return True after its one corrective retype, with a
\* field that still differs from the text.
C17_Witness ==
    /\ pc = "t_ret"
    /\ typ.result = "True"
    /\ typ.retypes = 1
    /\ typ.reads = 1
    /\ Strip(field) # Strip(text)

\* One step of a method in progress: a driver operation returns or raises (a
\* wait that times out raises), and the method goes on to its next statement.
MethodStep ==
    \/ clear_field \/ type_char \/ read_back \/ retype
    \/ type_return_caller \/ type_return_cascade
    \/ resolve_candidate \/ click_candidate \/ fill_body
    \/ login_navigate \/ login_verify \/ login_final_failure \/ login_retry
    \/ open_compose \/ wait_dialog \/ confirm_sent \/ send_final_failure \/ send_retry

\* The program with every driver operation of a method in progress returning
\* or raising in the end.
FairSpec == Spec /\ WF_vars(MethodStep)

\* The position of a block in its attempt, counted from the end.
BlocksLeft(s) ==
    CASE s = "compose" -> 8
      [] s = "dialog" -> 7
      [] s \in {"nav", "recipient"} -> 6
      [] s \in {"email", "subject"} -> 5
      [] s \in {"next", "body"} -> 4
      [] s \in {"password", "send"} -> 3
      [] s \in {"submit", "confirm"} -> 2
      [] s = "landmark" -> 1
      [] OTHER -> 0

\* The urls or candidates of the current block not tried yet.
CandidatesLeft ==
    IF step = "nav" THEN Len(urls) - cand
    ELSE IF step \in Cascades THEN Len(Candidates(step)) - cand
    ELSE 0

\* The statements left in the handling of the current candidate.
StatementsLeft ==
    CASE pc = "try" -> 20
      [] pc = "t_clear" -> IF typ.reads = 0 THEN 15 ELSE 8
      [] pc = "t_char" -> 10 + (Len(text) - ti)
      [] pc = "t_read" -> 9
      [] pc = "t_resend" -> 7
      [] pc \in {"t_ret", "resolved"} -> 6
      [] OTHER -> 0

\* A bound on the steps login_to_gmail or compose_and_send_email has left: the
\* attempts left, then the blocks, candidates and statements left in the
\* current attempt (1 in its except clause, 0 once the call has ended).
StepsLeft ==
    IF pc = "idle" THEN 0
    ELSE (maxAtt - attempt) * 2048
         + (IF pc = "except" THEN 1
            ELSE 2 + BlocksLeft(step) * 160 + CandidatesLeft * 32 + StatementsLeft)

\* The ceilings of a call of login_to_gmail or compose_and_send_email.
WithinCeilings ==
    InFlow =>
       /\ obs.attempts <= maxAtt
       /\ attempt <= maxAtt
       /\ pc # "idle" => obs.attempts = attempt
       /\ cas.name \in Cascades \cup {"nav"} =>
             /\ cas.tried = 1..Cardinality(cas.tried)
             /\ Cardinality(cas.tried) <= (IF cas.name = "nav" THEN Len(urls)
                                           ELSE Len(Candidates(cas.name)))
             /\ (step = cas.name /\ pc = "try") => cand \notin cas.tried
       /\ \A i, j \in 1..Len(obs.steps) : obs.steps[i] = obs.steps[j] => i = j
       /\ ret = "True" => pc = "idle"
       /\ pc # "idle" => ENABLED MethodStep

\* C18: every retry loop has a hard ceiling, so login_to_gmail and
\* compose_and_send_email always terminate when every driver wait returns or
\* times out: at most max_attempts attempts are made, within an attempt each
\* url and each selector candidate is tried at most once, no attempt begins
\* after a successful one, every step of a call in progress lowers the bound
\* on the steps it has left, and the call ends.
C18_RetryLoopsTerminate ==
    /\ []WithinCeilings
    /\ [][(InFlow /\ pc # "idle") =>
             /\ StepsLeft' < StepsLeft
             /\ obs'.attempts \in {obs.attempts, obs.attempts + 1}
             /\ (obs'.attempts = obs.attempts + 1) => (pc = "except" /\ ret = "pending")]_vars
    /\ (InFlow /\ pc # "idle") ~> (pc = "idle")

\* A call that made max_attempts = 3 attempts, all failed, and has ended.
C18_Witness ==
    /\ Ended("login")
    /\ maxAtt = 3
    /\ obs.attempts = 3
    /\ ret = "False"

\* C19: across all attempts of one compose_and_send_email invocation the send
\* control is clicked at most once, so one invocation never sends the message
\* more than once, in particular when the send click succeeds but the
\* dialog-invisible confirmation wait times out.
C19_SendClickedAtMostOnce == op = "send" => obs.sendClicks <= 1

\* C20: every browser session the shell creates in a Send Email action is
\* closed before the action finishes, on every path: login success then send
\* success, login failure, send failure, and any exception raised by
\* construction, login or send.
C20_ShellClosesEverySession == (client = "shell" /\ shell = "done") => live = {}

\* What remains of C20 on the paths with no exception: the shell finishes
\* after success, login failure or send failure only after calling close().
C20_ClosedUnlessRaised ==
    (client = "shell" /\ shell = "done"
        /\ status \in {"success", "login_failed", "send_failed"})
    => Ended("close")

====
